---- MODULE Spec2Model ----
(***************************************************************************)
(* Model of examples/server.cc of ngtcp2: the UDP dispatcher               *)
(* (Server::on_read), the per-connection Handler with its handshake        *)
(* queues, key derivation and idle timer, and the Version Negotiation      *)
(* encoder.                                                                *)
(*                                                                         *)
(* The transport engine (ngtcp2_conn, ngtcp2_accept, ngtcp2_upe) and the   *)
(* crypto helpers live outside examples/server.cc; they are modelled       *)
(* at their interface.  OpenSSL, libev and the socket are the environment: *)
(* their results are chosen nondeterministically.                          *)
(***************************************************************************)
EXTENDS Integers, Sequences, FiniteSets, TLC

(***************************************************************************)
(* Bounds of the model                                                     *)
(***************************************************************************)
\* Handler objects ever constructed in one run
MaxSessions == 3
\* datagrams the transport engine produces in one drain (on_write) loop
MaxBurst == 2
\* bytes a handshake queue may hold
MaxHs == 2
\* bytes a handshake queue may hold in the runs of the bridge alone
MaxQueue == 3

(***************************************************************************)
(* Program constants                                                       *)
(***************************************************************************)
\* ev_timer_init(&timer_, timeoutcb, 5., 0.): seconds until the timer fires
IdleTimeout == 5
NGTCP2_MAX_PKTLEN_IPV4 == 1252
NGTCP2_MAX_PKTLEN_IPV6 == 1232
\* packet type in the low seven bits of the first byte of a long header
NGTCP2_PKT_VERSION_NEGOTIATION == 1
NGTCP2_PKT_CLIENT_INITIAL == 2
\* address families as sa_family_t values (Linux)
AF_INET == 2
AF_INET6 == 10

\* a uint32_t is kept as its four bytes in network order (most significant
\* first): TLC integers are 32-bit signed and cannot hold 0xff000005
NGTCP2_PROTO_VERSION == <<255, 0, 0, 5>>
UnsupportedVersion == <<0, 0, 0, 153>>

(***************************************************************************)
(* State                                                                   *)
(***************************************************************************)
VARIABLES
  handlers_,   \* Server::handlers_
  heap,        \* the Handler objects by address 1..MaxSessions
  nalloc,      \* Handler objects constructed so far
  out,         \* the sendto calls of the last callback, in order
  ev,          \* what the last callback did
  crashed,     \* the process has stopped on a memory fault
  env          \* the peers and the TLS and crypto results a run draws from

vars == << handlers_, heap, nalloc, out, ev, crashed, env >>

(***************************************************************************)
(* 32-bit arithmetic of generate_reserved_vesrion                          *)
(***************************************************************************)
\* a ^ b on bytes, bit by bit
Bit(x, i) == (x \div (2 ^ i)) % 2
BXor(a, b) ==
  LET X(i) == ((Bit(a, i) + Bit(b, i)) % 2) * (2 ^ i)
  IN  X(0) + X(1) + X(2) + X(3) + X(4) + X(5) + X(6) + X(7)

\* h ^= *p : the byte is xor-ed into the least significant byte of h
XorByte(h, p) == <<h[1], h[2], h[3], BXor(h[4], p)>>

\* a multiplication by 0x193 that drops the 2^24 part of the prime
MulPrime_low(h) ==
  LET t0 == h[4] * 403
      t1 == (h[3] * 403) + (t0 \div 256)
      t2 == (h[2] * 403) + (t1 \div 256)
      t3 == (h[1] * 403) + (t2 \div 256)
  IN  <<t3 % 256, t2 % 256, t1 % 256, t0 % 256>>

\* h *= 0x01000193u modulo 2^32; 0x01000193 = 2^24 + 403
MulPrime(h) ==
  LET t0 == h[4] * 403
      t1 == (h[3] * 403) + (t0 \div 256)
      t2 == (h[2] * 403) + (t1 \div 256)
      t3 == (h[1] * 403) + (t2 \div 256) + h[4]
  IN  <<t3 % 256, t2 % 256, t1 % 256, t0 % 256>>

\* the for loops: every byte in turn is xor-ed in and the state multiplied.
\* The byte string is walked left to right by halves, and the state after
\* the left half is computed (the test on it) before the right half starts,
\* which keeps the evaluation shallow.
RECURSIVE FnvBytes(_, _)
FnvBytes(h, bytes) ==
  IF Len(bytes) = 0 THEN h
  ELSE IF Len(bytes) = 1 THEN MulPrime(XorByte(h, bytes[1]))
  ELSE LET m == Len(bytes) \div 2
           left == FnvBytes(h, SubSeq(bytes, 1, m))
       IN  IF Len(left) = 4
           THEN FnvBytes(left, SubSeq(bytes, m + 1, Len(bytes)))
           ELSE left

\* h &= 0xf0f0f0f0u; h |= 0x0a0a0a0au
ForcePattern(h) == [i \in 1..4 |-> ((h[i] \div 16) * 16) + 10]

\* a hash that also takes in the number of Handlers made so far
generate_reserved_vesrion_salted(sa, version) ==
  ForcePattern(FnvBytes(FnvBytes(<<129, 28, 157, 197>>, sa),
                        version \o << nalloc >>))

\* sa is the byte image of the peer's sockaddr, version a uint32_t; htonl
\* puts the version's bytes in network order, which is how it is kept here
generate_reserved_vesrion(sa, version) ==
  ForcePattern(FnvBytes(FnvBytes(<<129, 28, 157, 197>>, sa), version))

(***************************************************************************)
(* Peers, socket addresses and connection keys                             *)
(***************************************************************************)
\* the peers that send datagrams: family, port, address bytes and the
\* numeric host text getnameinfo(NI_NUMERICHOST) yields for the address
Peers ==
  { [family |-> AF_INET, port |-> 4433, addr |-> <<192, 0, 2, 1>>,
     host |-> ToString(192) \o "." \o ToString(0) \o "." \o ToString(2)
              \o "." \o ToString(1)],
    [family |-> AF_INET6, port |-> 4433,
     addr |-> <<32, 1, 13, 184, 0, 0, 0, 0, 0, 0, 0, 0, 0, 0, 0, 1>>,
     host |-> "2001:db8::1"] }

\* the bytes generate_reserved_vesrion walks over: struct sockaddr_in
\* (16 bytes) or struct sockaddr_in6 (28 bytes) as recvfrom filled it
SaBytes(sa) ==
  LET head == <<sa.family, 0, sa.port \div 256, sa.port % 256>>
  IN  IF sa.family = AF_INET
      THEN head \o sa.addr \o <<0, 0, 0, 0, 0, 0, 0, 0>>
      ELSE head \o <<0, 0, 0, 0>> \o sa.addr \o <<0, 0, 0, 0>>

\* gai is the result of getnameinfo; "" reports the failure
create_conn_key(sa, gai) ==
  IF gai # 0 THEN ""
  ELSE "[" \o sa.host \o "]:" \o ToString(sa.port)

Keys == { create_conn_key(p, 0) : p \in Peers }

(***************************************************************************)
(* Handler: one QUIC connection                                            *)
(***************************************************************************)
Min(a, b) == IF a < b THEN a ELSE b

\* bytes the peer's handshake frames carry, and bytes the TLS stack emits
ClientChunks == { <<1>>, <<1, 2>> }
ServerChunks == { <<>>, <<7>> }

\* what SSL_get_error can report for an unfinished handshake, "done"
\* standing for SSL_do_handshake returning 1
TlsResults == { "want", "fatal", "done" }

\* the sub-step of key derivation that fails ("none": all succeed)
KdSteps == { "none", "prf", "aead", "tx_secret", "tx_key", "tx_iv",
             "rx_secret", "rx_key", "rx_iv" }

\* one call the Handler made into the engine about the handshake and keys
EngineCall(op, keylen, ivlen) ==
  [ op |-> op, keylen |-> keylen, ivlen |-> ivlen ]

\* the transport engine's connection object right after
\* ngtcp2_conn_server_new: no keys, handshake not completed.  calls is
\* history: the completion and key calls made on the connection, in order.
NewConn ==
  [ state |-> "handshake", handshake_completed |-> FALSE, flight |-> FALSE,
    tx_keys |-> <<>>, rx_keys |-> <<>>, aead_overhead |-> <<>>,
    calls |-> <<>> ]

\* conn_(nullptr): the Handler has no engine connection
NullConn == [NewConn EXCEPT !.state = "null"]

\* Handler::Handler: the members as the constructor leaves them; timer_ is
\* the number of seconds until timeoutcb runs, -1 while the timer is stopped.
\* nsetup is history: the number of setup_crypto_context calls; inited is
\* history: "no" before Handler::init, then "ok" or "failed", its result.
NewHandler ==
  [ remote_addr_ |-> <<>>, max_pktlen_ |-> 0, ncread_ |-> 0, nsread_ |-> 0,
    chandshake_ |-> <<>>, shandshake_ |-> <<>>,
    ssl_ |-> [ null |-> TRUE, done |-> FALSE ],
    conn_ |-> NullConn,
    crypto_ctx_ |-> [ prf |-> "", aead |-> "", secretlen |-> 0,
                      tx_secret |-> "", rx_secret |-> "" ],
    timer_ |-> -1, nsetup |-> 0, inited |-> "no" ]

\* Handler::init: remember the peer, create the TLS object and the engine
\* connection, start the one-shot timer.  new_rv is the result of
\* ngtcp2_conn_server_new; when it fails conn_ stays null and the timer is
\* not started.
init(h, sa, new_rv) ==
  LET h1 == [h EXCEPT !.remote_addr_ = sa]
  IN  IF sa.family \notin {AF_INET, AF_INET6}
      THEN [rv |-> -1, h |-> [h1 EXCEPT !.inited = "failed"]]
      ELSE
        LET h2 == [h1 EXCEPT
                     !.max_pktlen_ = IF sa.family = AF_INET
                                     THEN NGTCP2_MAX_PKTLEN_IPV4
                                     ELSE NGTCP2_MAX_PKTLEN_IPV6,
                     !.ssl_ = [ null |-> FALSE, done |-> FALSE ]]
        IN  IF new_rv # 0
            THEN [rv |-> -1, h |-> [h2 EXCEPT !.inited = "failed"]]
            ELSE [rv |-> 0,
                  h |-> [h2 EXCEPT !.conn_ = NewConn,
                                   !.timer_ = IdleTimeout,
                                   !.inited = "ok"]]

write_server_handshake(h, data) == [h EXCEPT !.chandshake_ = @ \o data]

\* a read that hands out the whole queue every time
read_server_handshake_rewind(h) ==
  [ n |-> Len(h.chandshake_),
    dest |-> h.chandshake_,
    h |-> [h EXCEPT !.ncread_ = Len(h.chandshake_)] ]

read_server_handshake(h) ==
  [ n |-> Len(h.chandshake_) - h.ncread_,
    dest |-> SubSeq(h.chandshake_, h.ncread_ + 1, Len(h.chandshake_)),
    h |-> [h EXCEPT !.ncread_ = Len(h.chandshake_)] ]

read_client_handshake(h, buflen) ==
  LET n == Min(buflen, Len(h.shandshake_) - h.nsread_)
  IN  [ n |-> n,
        buf |-> SubSeq(h.shandshake_, h.nsread_ + 1, h.nsread_ + n),
        h |-> [h EXCEPT !.nsread_ = @ + n] ]

\* a queue that keeps only the bytes of the last call
write_client_handshake_replace(h, data) == [h EXCEPT !.shandshake_ = data]

write_client_handshake(h, data) == [h EXCEPT !.shandshake_ = @ \o data]

\* the BIO callbacks the TLS stack reads and writes through
bio_write(h, buf) ==
  [ ret |-> Len(buf), h |-> write_server_handshake(h, buf) ]

\* a read that reports an empty queue as 0 bytes
bio_read_eof(h, len) ==
  LET r == read_client_handshake(h, len)
  IN  [ ret |-> r.n, retry_read |-> FALSE, buf |-> r.buf, h |-> r.h ]

bio_read(h, len) ==
  LET r == read_client_handshake(h, len)
  IN  IF r.n = 0
      THEN [ ret |-> -1, retry_read |-> TRUE, buf |-> <<>>, h |-> r.h ]
      ELSE [ ret |-> r.n, retry_read |-> FALSE, buf |-> r.buf, h |-> r.h ]

\* the TLS stack reading through bio_read until it reports would-block
RECURSIVE SslReadAll(_)
SslReadAll(h) ==
  LET r == bio_read(h, 1)
  IN  IF r.ret = -1 THEN r.h ELSE SslReadAll(r.h)

\* SSL_do_handshake and SSL_get_error: the outcomes the TLS stack can
\* produce.  A finished handshake returns 1 again without I/O.  Otherwise
\* the stack consumes what bio_read gives until it would block; when that
\* call consumed new bytes it may emit bytes through bio_write and may
\* finish; it can fail at any call.
SSL_do_handshake(h) ==
  IF h.ssl_.done THEN { [ res |-> "done", h |-> h ] }
  ELSE LET h1 == SslReadAll(h)
           consumed == h1.nsread_ > h.nsread_
           emits == IF consumed
                    THEN { c \in ServerChunks :
                             Len(h1.chandshake_) + Len(c) <= MaxHs }
                    ELSE { <<>> }
       IN  { [ res |-> res,
               h |-> [ bio_write(h1, w).h EXCEPT
                         !.ssl_.done = (res = "done") ] ] :
               res \in { r \in env.tls : r = "done" => consumed },
               w \in emits }

\* the engine notes that the TLS handshake has finished
ngtcp2_conn_handshake_completed(conn) ==
  [conn EXCEPT !.handshake_completed = TRUE,
               !.calls = Append(@, EngineCall("completed", 0, 0))]

tls_handshake(h) ==
  { IF o.res = "want" THEN [ rv |-> 0, h |-> o.h ]
    ELSE IF o.res = "fatal" THEN [ rv |-> -1, h |-> o.h ]
    ELSE [ rv |-> 0,
           h |-> [o.h EXCEPT
                    !.conn_ = ngtcp2_conn_handshake_completed(@)] ] :
    o \in SSL_do_handshake(h) }

ngtcp2_conn_update_tx_keys(conn, keylen, ivlen) ==
  [conn EXCEPT !.tx_keys = Append(@, [keylen |-> keylen, ivlen |-> ivlen]),
               !.calls = Append(@, EngineCall("tx_keys", keylen, ivlen))]

ngtcp2_conn_update_rx_keys(conn, keylen, ivlen) ==
  [conn EXCEPT !.rx_keys = Append(@, [keylen |-> keylen, ivlen |-> ivlen]),
               !.calls = Append(@, EngineCall("rx_keys", keylen, ivlen))]

ngtcp2_conn_set_aead_overhead(conn, n) ==
  [conn EXCEPT !.aead_overhead = Append(@, n),
               !.calls = Append(@, EngineCall("aead_overhead", 0, 0))]

\* Handler::setup_crypto_context; f is the crypto helper that fails.  A
\* failing derive_packet_protection_key / _iv returns -1 as the length; rv
\* still holds the 0 of the preceding secret export when it is tested.
setup_crypto_context(h, f) ==
  LET h0 == [h EXCEPT !.nsetup = @ + 1]
  IN
  IF f = "prf" THEN [ rv |-> -1, h |-> h0 ] ELSE
  LET h1 == [h0 EXCEPT !.crypto_ctx_.prf = "prf"] IN
  IF f = "aead" THEN [ rv |-> -1, h |-> h1 ] ELSE
  LET h2 == [h1 EXCEPT !.crypto_ctx_.aead = "aead",
                       !.crypto_ctx_.secretlen = 32] IN
  IF f = "tx_secret" THEN [ rv |-> -1, h |-> h2 ] ELSE
  LET rv_tx == 0
      h3 == [h2 EXCEPT !.crypto_ctx_.tx_secret = "server"]
      tx_keylen == IF f = "tx_key" THEN -1 ELSE 16
      tx_ivlen == IF f = "tx_iv" THEN -1 ELSE 12 IN
  IF rv_tx # 0 THEN [ rv |-> -1, h |-> h3 ] ELSE
  LET h4 == [h3 EXCEPT
               !.conn_ = ngtcp2_conn_update_tx_keys(@, tx_keylen, tx_ivlen)]
  IN
  IF f = "rx_secret" THEN [ rv |-> -1, h |-> h4 ] ELSE
  LET rv_rx == 0
      h5 == [h4 EXCEPT !.crypto_ctx_.rx_secret = "client"]
      rx_keylen == IF f = "rx_key" THEN -1 ELSE 16
      rx_ivlen == IF f = "rx_iv" THEN -1 ELSE 12 IN
  IF rv_rx # 0 THEN [ rv |-> -1, h |-> h5 ] ELSE
  LET h6 == [h5 EXCEPT
               !.conn_ = ngtcp2_conn_update_rx_keys(@, rx_keylen, rx_ivlen)]
  IN  [ rv |-> 0,
        h |-> [h6 EXCEPT !.conn_ = ngtcp2_conn_set_aead_overhead(@, 16)] ]

\* the engine's callbacks; -1 stands for NGTCP2_ERR_CALLBACK_FAILURE
handshake_completed(h, f) ==
  LET r == setup_crypto_context(h, f)
  IN  IF r.rv # 0 THEN [ rv |-> -1, h |-> r.h ] ELSE [ rv |-> 0, h |-> r.h ]

recv_handshake_data(h, data) ==
  { IF o.rv # 0 THEN [ rv |-> -1, h |-> o.h ] ELSE [ rv |-> 0, h |-> o.h ] :
    o \in tls_handshake(write_client_handshake(h, data)) }

\* a callback that hands an empty first flight to the engine
send_server_cleartext_lenient(h, ppkt_num) ==
  { IF o.rv # 0
    THEN [ rv |-> -1, dest |-> <<>>, h |-> o.h, tls |-> o.rv, unread |-> 0 ]
    ELSE LET r == read_server_handshake(o.h)
         IN  [ rv |-> r.n, dest |-> r.dest, h |-> r.h, tls |-> o.rv,
               unread |-> Len(o.h.chandshake_) - o.h.ncread_ ] :
    o \in tls_handshake(h) }

\* ppkt_num tells whether the engine passed a packet-number slot.  tls and
\* unread are history: what tls_handshake returned, and the unread bytes of
\* the outbound queue after it.
send_server_cleartext(h, ppkt_num) ==
  { IF o.rv # 0
    THEN [ rv |-> -1, dest |-> <<>>, h |-> o.h, tls |-> o.rv, unread |-> 0 ]
    ELSE LET r == read_server_handshake(o.h)
             unread == Len(o.h.chandshake_) - o.h.ncread_
         IN  IF ppkt_num /\ r.n = 0
             THEN [ rv |-> -1, dest |-> <<>>, h |-> r.h, tls |-> o.rv,
                    unread |-> unread ]
             ELSE [ rv |-> r.n, dest |-> r.dest, h |-> r.h, tls |-> o.rv,
                    unread |-> unread ] :
    o \in tls_handshake(h) }

(***************************************************************************)
(* The transport engine as the Handler drives it                           *)
(***************************************************************************)
\* what of a datagram the engine acts on: bad tells that the engine
\* rejects it, hs are the handshake bytes its frames carry
Payloads(h) ==
  { [ bad |-> TRUE, hs |-> <<>> ], [ bad |-> FALSE, hs |-> <<>> ] }
  \cup { [ bad |-> FALSE, hs |-> c ] :
           c \in { x \in env.chunks :
                     Len(h.shandshake_) + Len(x) <= MaxHs } }

\* an engine that invokes the callback whenever the flag is set
CallsHandshakeCompleted_unlatched(conn) == conn.handshake_completed

\* the engine invokes the handshake_completed callback when it finds the
\* completion flag set while it is still in the handshake state
CallsHandshakeCompleted(conn) ==
  conn.state = "handshake" /\ conn.handshake_completed

\* ngtcp2_conn_recv: reject the packet, or hand its handshake bytes to
\* recv_handshake_data and then, on completion, call handshake_completed
ngtcp2_conn_recv(h, pkt) ==
  IF pkt.bad THEN { [ rv |-> -1, h |-> h ] }
  ELSE
    LET fed == IF pkt.hs = <<>> THEN { [ rv |-> 0, h |-> h ] }
               ELSE recv_handshake_data(h, pkt.hs)
    IN  UNION {
          IF o.rv # 0 THEN { [ rv |-> -1, h |-> o.h ] }
          ELSE IF CallsHandshakeCompleted(o.h.conn_)
          THEN { LET c == handshake_completed(o.h, f)
                 IN  IF c.rv # 0 THEN [ rv |-> -1, h |-> c.h ]
                     ELSE [ rv |-> 0,
                            h |-> [c.h EXCEPT !.conn_.state = "post"] ] :
                 f \in env.kd }
          ELSE { [ rv |-> 0, h |-> o.h ] } :
          o \in fed }

\* ngtcp2_conn_send: n < 0 is an error, n = 0 nothing to send, n > 0 a
\* datagram; produced counts the datagrams of this drain so far.  During the
\* handshake the engine asks send_server_cleartext for the bytes to send,
\* with a packet-number slot for its first flight.  cb is history: the
\* send_server_cleartext call made, if any, with its argument and results.
ngtcp2_conn_send(h, produced) ==
  IF h.conn_.state = "handshake"
  THEN { LET cb == << [ ppkt_num |-> ~h.conn_.flight, tls |-> o.tls,
                        unread |-> o.unread, rv |-> o.rv ] >>
         IN  IF o.rv < 0 THEN [ n |-> -1, pkt |-> <<>>, h |-> o.h, cb |-> cb ]
             ELSE IF o.rv = 0
             THEN [ n |-> 0, pkt |-> <<>>, h |-> o.h, cb |-> cb ]
             ELSE [ n |-> o.rv,
                    pkt |-> [ type |-> "cleartext", seq |-> produced + 1,
                              data |-> o.dest ],
                    h |-> [o.h EXCEPT !.conn_.flight = TRUE], cb |-> cb ] :
         o \in send_server_cleartext(h, ~h.conn_.flight) }
  ELSE { [ n |-> -1, pkt |-> <<>>, h |-> h, cb |-> <<>> ],
         [ n |-> 0, pkt |-> <<>>, h |-> h, cb |-> <<>> ] }
       \cup IF produced < MaxBurst
            THEN { [ n |-> 1,
                     pkt |-> [ type |-> "protected", seq |-> produced + 1,
                               data |-> <<>> ],
                     h |-> h, cb |-> <<>> ] }
            ELSE {}

feed_data(h, pkt) ==
  { IF o.rv # 0 THEN [ rv |-> -1, h |-> o.h ] ELSE [ rv |-> 0, h |-> o.h ] :
    o \in ngtcp2_conn_recv(h, pkt) }

\* one sendto call: the destination, the datagram and whether it succeeded
SendtoCall(sa, kind, pkt, ok) ==
  [ to |-> sa, kind |-> kind, pkt |-> pkt, ok |-> ok ]

\* what on_write does when sendto has returned: TRUE to give up with -1
SendtoAborts(ok) == ~ok

\* Handler::on_write: the for (;;) loop; sent collects the sendto calls.
\* drain is history: the return statement that ended the loop; cbs is
\* history: the send_server_cleartext calls the engine made in the loop.
RECURSIVE on_write_loop(_, _, _)
on_write_loop(h, sent, cbs) ==
  UNION {
    IF o.n < 0
    THEN { [ rv |-> -1, h |-> o.h, out |-> sent, drain |-> "send_error",
             cbs |-> cbs \o o.cb ] }
    ELSE IF o.n = 0
    THEN { [ rv |-> 0, h |-> o.h, out |-> sent, drain |-> "nothing",
             cbs |-> cbs \o o.cb ] }
    ELSE UNION {
           LET sent1 == Append(sent, SendtoCall(h.remote_addr_, "conn",
                                              o.pkt, ok))
           IN  IF SendtoAborts(ok)
               THEN { [ rv |-> -1, h |-> o.h, out |-> sent1,
                        drain |-> "sendto_failed", cbs |-> cbs \o o.cb ] }
               ELSE on_write_loop(o.h, sent1, cbs \o o.cb) :
           ok \in BOOLEAN } :
    o \in ngtcp2_conn_send(h, Len(sent)) }

on_write(h) == on_write_loop(h, <<>>, <<>>)

\* Handler::on_read: feed, then drain.  The timer is not touched here.
\* feed keeps the result of feed_data beside the result rv of on_read.
Handler_on_read(h, pkt) ==
  UNION {
    IF f.rv # 0
    THEN { [ rv |-> -1, feed |-> f.rv, h |-> f.h, out |-> <<>>,
             drain |-> "none", cbs |-> <<>> ] }
    ELSE { [ rv |-> w.rv, feed |-> f.rv, h |-> w.h, out |-> w.out,
             drain |-> w.drain, cbs |-> w.cbs ] :
           w \in on_write(f.h) } :
    f \in feed_data(h, pkt) }

(***************************************************************************)
(* Server: the dispatcher                                                  *)
(***************************************************************************)
\* the header fields and the length of a received datagram.  buf0 is the
\* first byte: 0x82 long form Client Initial, 0x85 long form Client
\* Cleartext, 0x02 short form.  The lengths lie around the floor of the
\* peer's address family.
Dgrams(sa) ==
  { [ len |-> l, buf0 |-> b, version |-> v, conn_id |-> c, pkt_num |-> 3 ] :
    l \in IF sa.family = AF_INET THEN { 20, 1251, 1252 }
          ELSE { 20, 1231, 1232 },
    b \in { 130, 133, 2 },
    v \in { NGTCP2_PROTO_VERSION, UnsupportedVersion }, c \in { 17, 42 } }

\* ngtcp2_accept: -1 packet not acceptable, 1 unsupported version, 0 fine;
\* hd is the parsed header
ngtcp2_accept(d) ==
  IF d.len < 17 \/ d.buf0 \div 128 = 0 THEN [ rv |-> -1, hd |-> <<>> ]
  ELSE [ rv |-> IF d.version # NGTCP2_PROTO_VERSION THEN 1 ELSE 0,
         hd |-> [ type |-> d.buf0 % 128, conn_id |-> d.conn_id,
                  pkt_num |-> d.pkt_num, version |-> d.version ] ]

\* an encoder that lists the supported version first and does not echo the
\* connection identifier
send_version_negotiation_swapped(chd, sa, ok) ==
  LET hd == [ type |-> NGTCP2_PKT_VERSION_NEGOTIATION,
              flags |-> "LONG_FORM",
              conn_id |-> 0, pkt_num |-> chd.pkt_num,
              version |-> chd.version ]
      reserved_ver == generate_reserved_vesrion(SaBytes(sa), hd.version)
      sv == << NGTCP2_PROTO_VERSION, reserved_ver >>
  IN  [ rv |-> IF ok THEN 0 ELSE -1,
        out |-> << SendtoCall(sa, "vn", [ hd |-> hd, sv |-> sv ], ok) >> ]

\* Server::send_version_negotiation: the sendto call it makes
send_version_negotiation(chd, sa, ok) ==
  LET hd == [ type |-> NGTCP2_PKT_VERSION_NEGOTIATION,
              flags |-> "LONG_FORM",
              conn_id |-> chd.conn_id, pkt_num |-> chd.pkt_num,
              version |-> chd.version ]
      reserved_ver == generate_reserved_vesrion(SaBytes(sa), hd.version)
      sv == << reserved_ver, NGTCP2_PROTO_VERSION >>
  IN  [ rv |-> IF ok THEN 0 ELSE -1,
        out |-> << SendtoCall(sa, "vn", [ hd |-> hd, sv |-> sv ], ok) >> ]

\* handlers_: the table of connection key -> owned Handler
MapFind(m, k) == { e \in m : e.key = k }
MapInsert(m, k, v) ==
  IF MapFind(m, k) = {} THEN m \cup { [ key |-> k, h |-> v ] } ELSE m
MapErase(m, k) == { e \in m : e.key # k }

\* Handler::~Handler stops the timer and frees the engine and TLS objects;
\* nothing of the object is left to read
FreedCell == [ st |-> "freed", obj |-> NewHandler ]
UnusedCell == [ st |-> "unused", obj |-> NewHandler ]
LiveCell(h) == [ st |-> "live", obj |-> h ]

NoSa == [ family |-> 0, port |-> 0, addr |-> <<>>, host |-> "" ]
NoDgram ==
  [ len |-> 0, buf0 |-> 0, version |-> <<>>, conn_id |-> 0, pkt_num |-> 0 ]
\* the last callback: the peer and the header it looked at, the path it
\* took, the Handler it used, and whether Handler::on_read was called, what
\* feed_data and on_read returned, how the drain ended and the calls made
\* on the Handler's engine connection up to the return
\* init is what Handler::init had returned for that Handler; cbs are the
\* send_server_cleartext calls made in the drain
NoCall ==
  [ called |-> FALSE, feed |-> 0, rv |-> 0, drain |-> "none",
    calls |-> <<>>, init |-> "no", cbs |-> <<>> ]
Called(o) ==
  [ called |-> TRUE, feed |-> o.feed, rv |-> o.rv, drain |-> o.drain,
    calls |-> o.h.conn_.calls, init |-> o.h.inited, cbs |-> o.cbs ]
\* Handler::on_read was called where its behaviour is undefined and did as
\* ub says
UndefinedCall(ub, inited) ==
  [ called |-> TRUE, feed |-> 0,
    rv |-> IF ub = "returns_error" THEN -1 ELSE 0,
    drain |-> "none", calls |-> <<>>, init |-> inited, cbs |-> <<>> ]
Event(op, sa, d, path, h, res) ==
  [ op |-> op, sa |-> sa, dgram |-> d, path |-> path, h |-> h, res |-> res ]

\* a dispatcher that ignores the result of on_read
OldReadFailed_never(rv) == FALSE

\* h->on_read(buf.data(), nread) != 0, for a Handler found in the table
OldReadFailed(rv) == rv # 0

\* a dispatcher that inserts the new Handler whatever on_read returned
NewReadFailed_never(rv) == FALSE

\* h->on_read(buf.data(), nread) != 0, for the Handler just created
NewReadFailed(rv) == rv # 0

InitServer ==
  /\ handlers_ = {}
  /\ heap = [ a \in 1..MaxSessions |-> UnusedCell ]
  /\ nalloc = 0
  /\ out = <<>>
  /\ ev = Event("start", NoSa, NoDgram, "", 0, NoCall)
  /\ crashed = FALSE

\* the runs of the dispatcher: both peers, handshakes that do not finish
Init ==
  /\ InitServer
  /\ env = [ peers |-> Peers, tls |-> { "want", "fatal" },
             chunks |-> { <<1>> }, kd |-> { "none" }, conn_new |-> { 0 } ]

\* the runs of one connection: one peer, every TLS and crypto result, and
\* ngtcp2_conn_server_new succeeding or failing (-1)
InitHandshake ==
  /\ InitServer
  /\ env = [ peers |-> { p \in Peers : p.family = AF_INET },
             tls |-> TlsResults, chunks |-> ClientChunks, kd |-> KdSteps,
             conn_new |-> { 0, -1 } ]

\* a dispatcher that takes every acceptable packet for a Client Initial
NotClientInitial_never(buf0) == FALSE

\* (buf[0] & 0x7f) != NGTCP2_PKT_CLIENT_INITIAL
NotClientInitial(buf0) == buf0 % 128 # NGTCP2_PKT_CLIENT_INITIAL

\* a callback that returns without touching the table or any Handler
Dropped(sa, d, path) ==
  /\ ev' = Event("read", sa, d, path, 0, NoCall)
  /\ out' = <<>>
  /\ UNCHANGED << handlers_, heap, nalloc, crashed, env >>

\* a lookup that never finds the Handler
NotFound_always(handler_it) == TRUE

\* handler_it == std::end(handlers_)
NotFound(handler_it) == handler_it = {}

\* the switch without its AF_INET case
TooShort_none(sa, nread) ==
  sa.family = AF_INET6 /\ nread < NGTCP2_MAX_PKTLEN_IPV6

\* the switch without its AF_INET6 case
TooShort_v4only(sa, nread) ==
  sa.family = AF_INET /\ nread < NGTCP2_MAX_PKTLEN_IPV4

\* the floor of the switch on ss_family: TRUE when the datagram is too short
TooShort(sa, nread) ==
  CASE sa.family = AF_INET -> nread < NGTCP2_MAX_PKTLEN_IPV4
    [] sa.family = AF_INET6 -> nread < NGTCP2_MAX_PKTLEN_IPV6
    [] OTHER -> FALSE

\* h->on_read on a Handler whose init failed: conn_ is null and
\* ngtcp2_conn_recv is called with it, which is undefined: the process
\* faults, or the call returns 0 or -1.  fresh tells that the Handler was
\* just constructed and is not in the table yet.
UninitRead(sa, d, conn_key, addr, h, fresh) ==
  \E ub \in { "fault", "returns_0", "returns_error" } :
    /\ out' = <<>>
    /\ nalloc' = IF fresh THEN addr ELSE nalloc
    /\ crashed' = (ub = "fault")
    /\ heap' = [heap EXCEPT ![addr] = IF ub = "returns_error"
                                      THEN FreedCell ELSE LiveCell(h)]
    /\ handlers_' = IF ub = "returns_error"
                    THEN MapErase(handlers_, conn_key)
                    ELSE IF ub = "returns_0" /\ fresh
                    THEN MapInsert(handlers_, conn_key, addr)
                    ELSE handlers_
    /\ ev' = Event("read", sa, d, "uninit_" \o ub, addr,
                   UndefinedCall(ub, h.inited))
    /\ UNCHANGED env

\* Server::on_read, no Handler for the key: lines 576-616
AcceptNew(sa, conn_key) ==
  \E d \in Dgrams(sa) :
    IF TooShort(sa, d.len) THEN Dropped(sa, d, "too_short")
    ELSE
      LET a == ngtcp2_accept(d)
      IN  IF a.rv = -1 THEN Dropped(sa, d, "unexpected")
          ELSE IF a.rv = 1
          THEN \E ok \in BOOLEAN :
                 /\ out' = send_version_negotiation(a.hd, sa, ok).out
                 /\ ev' = Event("read", sa, d, "version_negotiation", 0,
                              NoCall)
                 /\ UNCHANGED << handlers_, heap, nalloc, crashed, env >>
          ELSE IF NotClientInitial(d.buf0)
          THEN Dropped(sa, d, "not_initial")
          ELSE
            /\ nalloc < MaxSessions
            /\ \E new_rv \in env.conn_new :
               \* the result of init is not looked at
               LET addr == nalloc + 1
                   h == init(NewHandler, sa, new_rv).h
               IN  IF h.conn_.state = "null"
                   THEN UninitRead(sa, d, conn_key, addr, h, TRUE)
                   ELSE
                   \E pkt \in Payloads(h) :
                     \E o \in Handler_on_read(h, pkt) :
                       /\ nalloc' = addr
                       /\ out' = o.out
                       /\ UNCHANGED << crashed, env >>
                       /\ IF NewReadFailed(o.rv)
                          THEN /\ heap' = [heap EXCEPT ![addr] = FreedCell]
                               /\ handlers_' = handlers_
                               /\ ev' = Event("read", sa, d, "new_failed",
                                              addr, Called(o))
                          ELSE /\ handlers_' =
                                    MapInsert(handlers_, conn_key, addr)
                               /\ heap' =
                                    [heap EXCEPT ![addr] =
                                       IF MapFind(handlers_, conn_key) = {}
                                       THEN LiveCell(o.h) ELSE FreedCell]
                               /\ ev' = Event("read", sa, d, "new_inserted",
                                              addr, Called(o))

\* Server::on_read, a Handler is in the table: lines 619-624.  When the
\* Handler has been deleted the pointer dangles and the call is undefined:
\* the process faults, or the call runs on the dead object and returns 0 or
\* -1; -1 makes erase delete the object a second time.
Existing(sa, conn_key, addr) ==
  IF heap[addr].st = "live" /\ heap[addr].obj.conn_.state = "null"
  THEN UninitRead(sa, NoDgram, conn_key, addr, heap[addr].obj, FALSE)
  ELSE IF heap[addr].st = "live"
  THEN \E pkt \in Payloads(heap[addr].obj) :
         \E o \in Handler_on_read(heap[addr].obj, pkt) :
           /\ out' = o.out
           /\ UNCHANGED << nalloc, crashed, env >>
           /\ IF OldReadFailed(o.rv)
              THEN /\ handlers_' = MapErase(handlers_, conn_key)
                   /\ heap' = [heap EXCEPT ![addr] = FreedCell]
                   /\ ev' = Event("read", sa, NoDgram, "old_failed", addr,
                                  Called(o))
              ELSE /\ handlers_' = handlers_
                   /\ heap' = [heap EXCEPT ![addr] = LiveCell(o.h)]
                   /\ ev' = Event("read", sa, NoDgram, "old_ok", addr,
                                  Called(o))
  ELSE \E ub \in { "fault", "returns_0", "returns_error" } :
         /\ out' = <<>>
         /\ UNCHANGED << heap, nalloc, env >>
         /\ crashed' = (ub = "fault")
         /\ handlers_' = IF ub = "returns_error"
                         THEN MapErase(handlers_, conn_key) ELSE handlers_
         /\ ev' = Event("read", sa, NoDgram, "dangling_" \o ub, addr,
                        UndefinedCall(ub, "ok"))

\* Server::on_read: one readable event on the socket
Server_on_read ==
  /\ ~crashed
  /\ \E sa \in env.peers :
       \/ Dropped(NoSa, NoDgram, "recvfrom_failed")
       \/ \E gai \in { 0, -2 } :
            LET conn_key == create_conn_key(sa, gai)
                handler_it == MapFind(handlers_, conn_key)
            IN  IF conn_key = "" THEN Dropped(sa, NoDgram, "no_key")
                ELSE IF NotFound(handler_it) THEN AcceptNew(sa, conn_key)
                ELSE Existing(sa, conn_key, (CHOOSE e \in handler_it : TRUE).h)

\* timeoutcb: the one-shot timer of the Handler at addr has expired; the
\* Handler is deleted, handlers_ is not touched
timeoutcb(addr) ==
  /\ ~crashed
  /\ heap[addr].st = "live"
  /\ heap[addr].obj.timer_ = 0
  /\ heap' = [heap EXCEPT ![addr] = FreedCell]
  /\ ev' = Event("timeout", heap[addr].obj.remote_addr_, NoDgram, "timeout",
                 addr, NoCall)
  /\ out' = <<>>
  /\ UNCHANGED << handlers_, nalloc, crashed, env >>

\* one second passes: the event loop lets time advance only when no
\* expired timer is waiting for its callback; a timer that was never
\* started (-1) does not run
Tick ==
  /\ ~crashed
  /\ \E a \in 1..MaxSessions :
       heap[a].st = "live" /\ heap[a].obj.timer_ > 0
  /\ \A a \in 1..MaxSessions :
       heap[a].st = "live" => heap[a].obj.timer_ # 0
  /\ heap' = [ a \in 1..MaxSessions |->
                 IF heap[a].st = "live" /\ heap[a].obj.timer_ > 0
                 THEN [heap[a] EXCEPT !.obj.timer_ = @ - 1]
                 ELSE heap[a] ]
  /\ ev' = Event("tick", NoSa, NoDgram, "", 0, NoCall)
  /\ out' = <<>>
  /\ UNCHANGED << handlers_, nalloc, crashed, env >>

Next ==
  \/ Server_on_read
  \/ \E addr \in 1..MaxSessions : timeoutcb(addr)
  \/ Tick

Spec == Init /\ [][Next]_vars

SpecHandshake == InitHandshake /\ [][Next]_vars

(***************************************************************************)
(* The handshake bridge alone: the queue operations of one Handler in any  *)
(* order, as the TLS stack (bio_read, bio_write) and the engine's          *)
(* callbacks (write_client_handshake, read_server_handshake) call them     *)
(***************************************************************************)
\* the handshake bytes a peer may send in one frame
InboundChunks == UNION { [ 1..k -> { 1, 2 } ] : k \in 1..MaxQueue }
\* the bytes the TLS stack emits, cut into writes of one or two bytes
ServerFlight == [ i \in 1..MaxQueue |-> 6 + i ]
OutboundChunks(q) ==
  { SubSeq(ServerFlight, Len(q) + 1, Len(q) + k) :
      k \in { j \in 1..2 : Len(q) + j <= MaxQueue } }
\* the buffer sizes the TLS stack reads with
ReadSizes == 1..(MaxQueue + 1)

BridgeHandler ==
  init(NewHandler, CHOOSE p \in Peers : p.family = AF_INET, 0).h

\* the last call on the bridge: its argument and results; fed is history,
\* the chunks given to write_client_handshake so far, and got the bytes
\* bio_read has returned so far
BridgeEvent(op, arg, ret, buf, retry, fed, got) ==
  [ op |-> op, arg |-> arg, ret |-> ret, buf |-> buf, retry |-> retry,
    fed |-> fed, got |-> got ]

InitBridge ==
  /\ handlers_ = {}
  /\ heap = [ a \in 1..MaxSessions |->
                IF a = 1 THEN LiveCell(BridgeHandler) ELSE UnusedCell ]
  /\ nalloc = 1
  /\ out = <<>>
  /\ ev = BridgeEvent("start", <<>>, 0, <<>>, FALSE, <<>>, <<>>)
  /\ crashed = FALSE
  /\ env = [ peers |-> {}, tls |-> {}, chunks |-> {}, kd |-> {},
             conn_new |-> {} ]

\* the TLS stack writes handshake bytes for the peer
Bridge_bio_write ==
  \E c \in OutboundChunks(heap[1].obj.chandshake_) :
    /\ LET r == bio_write(heap[1].obj, c)
       IN  /\ heap' = [heap EXCEPT ![1] = LiveCell(r.h)]
           /\ ev' = BridgeEvent("bio_write", c, r.ret, <<>>, FALSE,
                                ev.fed, ev.got)
    /\ UNCHANGED << handlers_, nalloc, out, crashed, env >>

\* the TLS stack reads the peer's handshake bytes
Bridge_bio_read ==
  \E len \in ReadSizes :
    /\ LET r == bio_read(heap[1].obj, len)
       IN  /\ heap' = [heap EXCEPT ![1] = LiveCell(r.h)]
           /\ ev' = BridgeEvent("bio_read", len, r.ret, r.buf, r.retry_read,
                                ev.fed, ev.got \o r.buf)
    /\ UNCHANGED << handlers_, nalloc, out, crashed, env >>

\* recv_handshake_data queues the handshake bytes of a frame
Bridge_write_client_handshake ==
  \E c \in InboundChunks :
    /\ Len(heap[1].obj.shandshake_) + Len(c) <= MaxQueue
    /\ heap' = [heap EXCEPT
                  ![1] = LiveCell(write_client_handshake(heap[1].obj, c))]
    /\ ev' = BridgeEvent("write_client_handshake", c, 0, <<>>, FALSE,
                         Append(ev.fed, c), ev.got)
    /\ UNCHANGED << handlers_, nalloc, out, crashed, env >>

\* send_server_cleartext takes the bytes to send to the peer
Bridge_read_server_handshake ==
  /\ LET r == read_server_handshake(heap[1].obj)
     IN  /\ heap' = [heap EXCEPT ![1] = LiveCell(r.h)]
         /\ ev' = BridgeEvent("read_server_handshake", <<>>, r.n, r.dest,
                              FALSE, ev.fed, ev.got)
  /\ UNCHANGED << handlers_, nalloc, out, crashed, env >>

NextBridge ==
  \/ Bridge_bio_write
  \/ Bridge_bio_read
  \/ Bridge_write_client_handshake
  \/ Bridge_read_server_handshake

SpecBridge == InitBridge /\ [][NextBridge]_vars

(***************************************************************************)
(* The Version Negotiation encoder alone: send_version_negotiation called  *)
(* for one peer address and version while the table and the Handlers       *)
(* around it change                                                        *)
(***************************************************************************)
\* the peer addresses and the versions the encoder is called with
ReservedPeers == Peers \cup { [ p EXCEPT !.port = 4434 ] : p \in Peers }
ReservedVersions == { UnsupportedVersion, <<255, 0, 0, 4>>, <<26, 42, 58, 74>> }
\* the tables the dispatcher may hold when the datagram arrives
ReservedTables == SUBSET { [ key |-> k, h |-> 1 ] : k \in Keys }

\* the last call of the encoder: the address and version it was given and
\* the reserved version it put first; first is history, the reserved
\* version of the first call and the table and allocation count it saw
NoFirst == [ set |-> FALSE, reserved |-> <<>>, handlers |-> {}, nalloc |-> 0 ]
ReservedEvent(op, sa, version, reserved, first) ==
  [ op |-> op, sa |-> sa, version |-> version, reserved |-> reserved,
    first |-> first ]

InitReserved ==
  /\ handlers_ = {}
  /\ heap = [ a \in 1..MaxSessions |-> UnusedCell ]
  /\ nalloc = 0
  /\ out = <<>>
  /\ crashed = FALSE
  /\ env = [ peers |-> {}, tls |-> {}, chunks |-> {}, kd |-> {},
             conn_new |-> {} ]
  /\ \E sa \in ReservedPeers, v \in ReservedVersions :
       ev = ReservedEvent("start", sa, v, <<>>, NoFirst)

\* a datagram of the peer with the unsupported version is answered
Reserved_send_version_negotiation ==
  \E ok \in BOOLEAN :
    LET chd == [ type |-> NGTCP2_PKT_CLIENT_INITIAL, conn_id |-> 17,
                 pkt_num |-> 3, version |-> ev.version ]
        r == send_version_negotiation(chd, ev.sa, ok)
        reserved == r.out[1].pkt.sv[1]
    IN  /\ out' = r.out
        /\ ev' = ReservedEvent("vn", ev.sa, ev.version, reserved,
                               IF ev.first.set THEN ev.first
                               ELSE [ set |-> TRUE, reserved |-> reserved,
                                      handlers |-> handlers_,
                                      nalloc |-> nalloc ])
        /\ UNCHANGED << handlers_, heap, nalloc, crashed, env >>

\* datagrams of other peers create and remove Sessions in between
Reserved_other_datagrams ==
  /\ \E t \in ReservedTables, n \in 0..MaxSessions :
       /\ << t, n >> # << handlers_, nalloc >>
       /\ handlers_' = t
       /\ nalloc' = n
  /\ UNCHANGED << heap, out, ev, crashed, env >>

NextReserved ==
  \/ Reserved_send_version_negotiation
  \/ Reserved_other_datagrams

SpecReserved == InitReserved /\ [][NextReserved]_vars

(***************************************************************************)
(* Properties                                                              *)
(***************************************************************************)
Addrs == 1..MaxSessions
Live(a) == heap[a].st = "live"
KeyOf(sa) == create_conn_key(sa, 0)
\* the table has an entry for the peer's key
HasEntry(m, sa) == MapFind(m, KeyOf(sa)) # {}
\* the callback that has just run read a datagram from a peer that had no
\* entry in the table, and looked at its header
ReadFromUnknown ==
  /\ ev'.op = "read"
  /\ ev'.dgram # NoDgram
  /\ ~HasEntry(handlers_, ev'.sa)
\* nothing of the table and of the Handlers has changed
TableUntouched ==
  /\ handlers_' = handlers_
  /\ heap' = heap
  /\ nalloc' = nalloc
LongForm(d) == d.buf0 \div 128 = 1
BelowFloor(sa, d) ==
  \/ sa.family = AF_INET /\ d.len < 1252
  \/ sa.family = AF_INET6 /\ d.len < 1232
\* out is exactly one Version Negotiation datagram to sa that echoes the
\* connection identifier and packet number of d and lists the reserved
\* version, then the supported version
OneVersionNegotiation(o, sa, d) ==
  /\ Len(o) = 1
  /\ o[1].kind = "vn"
  /\ o[1].to = sa
  /\ o[1].pkt.hd.type = NGTCP2_PKT_VERSION_NEGOTIATION
  /\ o[1].pkt.hd.conn_id = d.conn_id
  /\ o[1].pkt.hd.pkt_num = d.pkt_num
  /\ o[1].pkt.sv = << generate_reserved_vesrion(SaBytes(sa), d.version),
                      NGTCP2_PROTO_VERSION >>

\* C1: handlers_ never holds two Handlers for one key, and a Handler is
\* constructed, and an entry added, only for a key whose lookup found no
\* entry.
C1_OneSessionPerKey ==
  /\ \A k \in Keys : Cardinality(MapFind(handlers_, k)) <= 1
  /\ [][ /\ \A k \in Keys : Cardinality(MapFind(handlers_', k)) <= 1
         /\ nalloc' # nalloc => ~HasEntry(handlers_, ev'.sa)
         /\ \A e \in handlers_' \ handlers_ :
              MapFind(handlers_, e.key) = {} ]_vars

\* a datagram for a key that has a Handler was given to that Handler while
\* the table holds both peers
C1_Witness ==
  /\ ev.path = "old_ok"
  /\ Cardinality(handlers_) = 2
  /\ nalloc = 2

\* C2: once the idle timer of a Session has fired, the table has no entry
\* for its peer, so that the peer's next datagram starts a new Session.
C2_TimedOutIsEvicted ==
  ev.op = "timeout" => ~HasEntry(handlers_, ev.sa)

\* C3: a sendto failure in the drain of a Session leaves the Session alive,
\* and in the table when it was there or was about to be inserted.
C3_WriteFailureKeepsSession ==
  ( /\ ev.op = "read"
    /\ ev.res.called
    /\ ev.res.feed = 0
    /\ \E i \in 1..Len(out) : out[i].kind = "conn" /\ ~out[i].ok )
  => /\ Live(ev.h)
     /\ [ key |-> KeyOf(ev.sa), h |-> ev.h ] \in handlers_

C6_ShortDropped ==
  [][ ( ReadFromUnknown /\ BelowFloor(ev'.sa, ev'.dgram) )
      => ( out' = <<>> /\ TableUntouched ) ]_vars

\* a valid Client Initial of 1231 bytes from the IPv6 peer was dropped
C6_Witness ==
  /\ ev.op = "read"
  /\ ev.sa.family = AF_INET6
  /\ ev.dgram.len = 1231
  /\ ev.dgram.buf0 = 130
  /\ ev.dgram.version = NGTCP2_PROTO_VERSION
  /\ out = <<>>
  /\ ev.h = 0

\* C7: when a datagram arrives for a key whose Handler is alive, a failing
\* feed ends with the Handler deleted and the key out of the table, and a
\* succeeding feed and drain leave the Handler alive under its key.
C7_FeedErrorRemoves ==
  [][ \A e \in handlers_ :
        ( /\ heap[e.h].st = "live"
          /\ ev'.op = "read"
          /\ ev'.res.called
          /\ e.key = KeyOf(ev'.sa) )
        => /\ ev'.h = e.h
           /\ ev'.res.feed # 0 =>
                ( MapFind(handlers_', e.key) = {}
                  /\ heap'[e.h].st = "freed" )
           /\ ( ev'.res.feed = 0 /\ ev'.res.rv = 0 ) =>
                ( e \in handlers_' /\ heap'[e.h].st = "live" ) ]_vars

\* the feed of a datagram to an existing Handler failed and the key is gone
C7_Witness ==
  /\ ev.path = "old_failed"
  /\ ev.res.feed # 0
  /\ ~HasEntry(handlers_, ev.sa)
  /\ handlers_ # {}

\* C8: a successful Handler::on_read leaves the Session's idle timer with
\* the full timeout to run.
C8_ReadRearmsTimer ==
  ( /\ ev.op = "read"
    /\ ev.res.called
    /\ ev.res.rv = 0
    /\ Live(ev.h) )
  => heap[ev.h].obj.timer_ = IdleTimeout

\* the keys, the AEAD overhead and the CryptoContext of a Handler
KeyMaterial(h) ==
  << h.crypto_ctx_, h.conn_.tx_keys, h.conn_.rx_keys,
     h.conn_.aead_overhead >>

C10_FailedDerivationAborts ==
  \A a \in Addrs :
    Live(a) =>
      \A i \in 1..Len(heap[a].obj.conn_.tx_keys \o heap[a].obj.conn_.rx_keys) :
        LET k == (heap[a].obj.conn_.tx_keys \o heap[a].obj.conn_.rx_keys)[i]
        IN  k.keylen >= 0 /\ k.ivlen >= 0

\* the calls made on one engine connection, in order: a key is installed
\* only after the completion was reported, the receive key only after the
\* send key, the AEAD overhead after both and with no key call after it
InstallOrder(calls) ==
  \A i \in 1..Len(calls) :
    /\ calls[i].op \in { "tx_keys", "rx_keys", "aead_overhead" } =>
         \E j \in 1..(i - 1) : calls[j].op = "completed"
    /\ calls[i].op \in { "rx_keys", "aead_overhead" } =>
         \E j \in 1..(i - 1) : calls[j].op = "tx_keys"
    /\ calls[i].op = "aead_overhead" =>
         /\ \E j \in 1..(i - 1) : calls[j].op = "rx_keys"
         /\ \A j \in (i + 1)..Len(calls) :
              calls[j].op \notin { "tx_keys", "rx_keys" }
\* the AEAD overhead is installed only when the keys and IVs of both
\* directions were derived
OverheadAfterSuccess(calls) ==
  \A i \in 1..Len(calls) :
    calls[i].op = "aead_overhead" =>
      \A j \in 1..(i - 1) :
        calls[j].op \in { "tx_keys", "rx_keys" } =>
          calls[j].keylen >= 0 /\ calls[j].ivlen >= 0
\* the engine connections to look at: those of the live Handlers and the
\* one the last callback used, which may have been destroyed since
EngineCalls ==
  { heap[a].obj.conn_.calls : a \in { x \in Addrs : Live(x) } }
  \cup { ev.res.calls }

\* C11: keys are installed in the engine only after the handshake was
\* reported complete, the send key before the receive key, and the AEAD
\* overhead last and only after both directions were derived successfully.
C11_KeysInOrder ==
  \A calls \in EngineCalls :
    InstallOrder(calls) /\ OverheadAfterSuccess(calls)

\* s is a prefix of t
IsPrefix(s, t) == Len(s) <= Len(t) /\ s = SubSeq(t, 1, Len(s))

\* C12: bio_read with a buffer of max_len bytes returns the
\* min(max_len, unread) bytes at the cursor and moves the cursor past them
\* when unread bytes exist; with no unread byte it returns -1 with the
\* retry-read flag set and leaves the cursor; it never returns 0.
C12_BridgeRead ==
  [][ ev'.op = "bio_read" =>
        LET q == heap[1].obj.shandshake_
            cur == heap[1].obj.nsread_
            unread == Len(q) - cur
            n == IF ev'.arg < unread THEN ev'.arg ELSE unread
        IN  /\ ev'.ret # 0
            /\ heap'[1].obj.shandshake_ = q
            /\ IF unread > 0
               THEN /\ ev'.ret = n
                    /\ ev'.buf = [ i \in 1..n |-> q[cur + i] ]
                    /\ heap'[1].obj.nsread_ = cur + n
                    /\ ~ev'.retry
               ELSE /\ ev'.ret = -1
                    /\ ev'.retry
                    /\ heap'[1].obj.nsread_ = cur ]_vars

\* a read found every byte of a queue of two or more bytes consumed and
\* reported would-block
C12_Witness ==
  /\ ev.op = "bio_read"
  /\ ev.ret = -1
  /\ ev.retry
  /\ heap[1].obj.nsread_ >= 2
  /\ Len(ev.got) >= 2

\* C13: the cursors stay within their queues and never move back, the
\* queues grow only at their end, and read_server_handshake returns the
\* unread suffix of the outbound queue and puts the cursor at its end.
C13_QueueCursors ==
  /\ \A a \in Addrs :
       Live(a) =>
         /\ 0 <= heap[a].obj.ncread_
         /\ heap[a].obj.ncread_ <= Len(heap[a].obj.chandshake_)
         /\ 0 <= heap[a].obj.nsread_
         /\ heap[a].obj.nsread_ <= Len(heap[a].obj.shandshake_)
  /\ [][ /\ \A a \in Addrs :
              ( heap[a].st = "live" /\ heap'[a].st = "live" ) =>
                /\ heap'[a].obj.ncread_ >= heap[a].obj.ncread_
                /\ heap'[a].obj.nsread_ >= heap[a].obj.nsread_
                /\ heap'[a].obj.ncread_ <= Len(heap'[a].obj.chandshake_)
                /\ heap'[a].obj.nsread_ <= Len(heap'[a].obj.shandshake_)
                /\ IsPrefix(heap[a].obj.chandshake_,
                            heap'[a].obj.chandshake_)
                /\ IsPrefix(heap[a].obj.shandshake_,
                            heap'[a].obj.shandshake_)
         /\ ev'.op = "read_server_handshake" =>
              LET q == heap[1].obj.chandshake_
                  cur == heap[1].obj.ncread_
              IN  /\ ev'.ret = Len(q) - cur
                  /\ ev'.buf = [ i \in 1..(Len(q) - cur) |-> q[cur + i] ]
                  /\ heap'[1].obj.ncread_ = Len(q)
                  /\ heap'[1].obj.chandshake_ = q ]_vars

\* a second read of the outbound queue returned the bytes written since the
\* first, not the whole queue
C13_Witness ==
  /\ ev.op = "read_server_handshake"
  /\ ev.ret > 0
  /\ ev.ret < Len(heap[1].obj.chandshake_)
  /\ heap[1].obj.ncread_ = Len(heap[1].obj.chandshake_)
  /\ heap[1].obj.nsread_ > 0

\* the bytes of a sequence of chunks, in order
RECURSIVE Flatten(_)
Flatten(chunks) ==
  IF chunks = <<>> THEN <<>> ELSE Head(chunks) \o Flatten(Tail(chunks))

\* C14: the inbound queue after the chunks were fed one by one, with reads
\* in between, is the queue one write_client_handshake call with all their
\* bytes leaves, and the bytes bio_read has returned are a prefix of them.
C14_ChunkingInvariance ==
  /\ heap[1].obj.shandshake_ =
       write_client_handshake(BridgeHandler, Flatten(ev.fed)).shandshake_
  /\ IsPrefix(ev.got, Flatten(ev.fed))

\* bytes were fed in two or more chunks, and a part of them has been read
C14_Witness ==
  /\ ev.op = "write_client_handshake"
  /\ Len(ev.fed) >= 2
  /\ Len(ev.got) >= 1
  /\ Len(ev.got) < Len(Flatten(ev.fed))
  /\ Len(ev.fed[1]) # Len(ev.fed[2])

RECURSIVE RefXor(_, _)
RefXor(a, b) ==
  IF a = 0 /\ b = 0 THEN 0
  ELSE (((a % 2) + (b % 2)) % 2) + (2 * RefXor(a \div 2, b \div 2))
RefStep(h, byte) ==
  LET lo == RefXor(h[2], byte)
      low == lo * 403
  IN  << ((low \div 65536) + (lo * 256) + (h[1] * 403)) % 65536,
         low % 65536 >>
RECURSIVE RefFnv1a(_, _)
RefFnv1a(h, bytes) ==
  IF Len(bytes) = 0 THEN h
  ELSE IF Len(bytes) = 1 THEN RefStep(h, bytes[1])
  ELSE LET m == Len(bytes) \div 2
           left == RefFnv1a(h, SubSeq(bytes, 1, m))
       IN  IF left[1] >= 0
           THEN RefFnv1a(left, SubSeq(bytes, m + 1, Len(bytes)))
           ELSE left
\* offset basis 0x811C9DC5; the result as four bytes, most significant first
RefHash(bytes) ==
  LET h == RefFnv1a(<< 33052, 40389 >>, bytes)
  IN  << h[1] \div 256, h[1] % 256, h[2] \div 256, h[2] % 256 >>

\* C16: the reserved version is the 32-bit FNV-1a hash of the address
\* bytes followed by the version's four network-order bytes, with the low
\* nibble of each byte set to 0xA and the high nibbles those of the hash.
C16_ReservedIsMaskedFnv1a ==
  ev.op = "vn" =>
    LET hash == RefHash(SaBytes(ev.sa) \o ev.version)
    IN  /\ Len(ev.reserved) = 4
        /\ \A i \in 1..4 :
             /\ ev.reserved[i] % 16 = 10
             /\ ev.reserved[i] \div 16 = hash[i] \div 16

\* the encoder ran for the 28 address bytes of an IPv6 peer
C16_Witness ==
  /\ ev.op = "vn"
  /\ ev.sa.family = AF_INET6
  /\ Len(SaBytes(ev.sa)) = 28
  /\ ev.version = UnsupportedVersion
  /\ ev.reserved = <<218, 42, 106, 170>>

\* C17: a Handler only moves from the handshake to the established state
\* and from either to destroyed; a destroyed Handler stays destroyed, and
\* Handler::on_read (feed and drain) is never called on a destroyed Handler,
\* which is also what would destroy it a second time.
C17_ClosedIsTerminal ==
  [][ /\ \A a \in Addrs :
           /\ heap[a].st = "freed" => heap'[a].st = "freed"
           /\ ( heap[a].st = "live" /\ heap'[a].st = "live"
                /\ heap[a].obj.conn_.state = "post" ) =>
                heap'[a].obj.conn_.state = "post"
      /\ ev'.res.called => heap[ev'.h].st # "freed" ]_vars

\* the key of the peer could not be made
NoKey == ev'.op = "read" /\ ev'.path = "no_key"
\* the datagram of an unknown peer is not a long-form packet, which is
\* what ngtcp2_accept refuses
Unparsable == ReadFromUnknown /\ ~LongForm(ev'.dgram)
\* the datagram of an unknown peer is a long-form packet of another type
\* than Client Initial
OtherType ==
  /\ ReadFromUnknown
  /\ LongForm(ev'.dgram)
  /\ ev'.dgram.buf0 % 128 # NGTCP2_PKT_CLIENT_INITIAL

DrainContract(ends) ==
  ( ev'.op = "read" /\ ev'.res.called /\ heap[ev'.h].st # "freed" ) =>
    /\ ev'.res.feed # 0 => ( out' = <<>> /\ ev'.res.drain = "none" )
    /\ ev'.res.feed = 0 =>
         /\ ev'.res.drain \in ends
         /\ \A i \in 1..Len(out') :
              /\ out'[i].kind = "conn"
              /\ out'[i].to = ev'.sa
              /\ out'[i].pkt.seq = i
         /\ ev'.res.drain = "nothing" => ev'.res.rv = 0
         /\ ev'.res.drain = "send_error" =>
              /\ heap'[ev'.h].st = "freed"
              /\ ~HasEntry(handlers_', ev'.sa)

\* C19: after a feed that succeeds the drain loop writes every datagram
\* the engine produces, in production order, to the Handler's own peer and
\* stops only when the engine has nothing more to send or fails to produce,
\* the failure ending the Session; after a feed that fails no drain runs.
C19_DrainUntilNothing ==
  [][ DrainContract({ "nothing", "send_error" }) ]_vars

\* the callback that has just run constructed a Handler whose first
\* on_read failed
FirstReadFailed ==
  /\ ev'.op = "read"
  /\ nalloc' = nalloc + 1
  /\ ev'.res.called
  /\ ev'.res.rv # 0

\* C20: a Handler whose first on_read fails is destroyed and never put in
\* the table: the table is as before and has no entry for the peer, the
\* Handler's timer is stopped; a timer never expires for a destroyed
\* Handler; and a datagram of a peer without entry is given to no existing
\* Handler, so the peer starts again as an unknown peer.
C20_FailedNewNotInserted ==
  [][ /\ FirstReadFailed =>
           /\ handlers_' = handlers_
           /\ ~HasEntry(handlers_', ev'.sa)
           /\ \A e \in handlers_' : e.h # ev'.h
           /\ heap'[ev'.h].st = "freed"
           /\ heap'[ev'.h].obj.timer_ = -1
      /\ ev'.op = "timeout" => heap[ev'.h].st = "live"
      /\ ( ev'.op = "read" /\ ev'.res.called
           /\ ~HasEntry(handlers_, ev'.sa) ) =>
           /\ nalloc' = nalloc + 1
           /\ ev'.h = nalloc' ]_vars

\* the first on_read of a second Handler failed in its drain while the
\* table held another peer; the Handler is gone and the table as before
C20_Witness ==
  /\ ev.op = "read"
  /\ ev.path = "new_failed"
  /\ ev.res.feed = 0
  /\ ev.res.rv # 0
  /\ nalloc >= 2
  /\ heap[ev.h].st = "freed"
  /\ handlers_ # {}
  /\ ~HasEntry(handlers_, ev.sa)

\* C21: Handler::on_read is called on a newly constructed Handler, and a
\* Handler is put in the table, only when its Handler::init returned
\* success.
C21_FedOnlyAfterInit ==
  [][ /\ ( ev'.op = "read" /\ ev'.res.called /\ nalloc' = nalloc + 1 ) =>
           ev'.res.init = "ok"
      /\ \A e \in handlers_' \ handlers_ :
           heap'[e.h].obj.inited = "ok" ]_vars

\* what one send_server_cleartext call must have returned: failure after
\* a fatal handshake step; failure when a packet-number slot was passed
\* and the outbound queue had no unread byte; the number of unread bytes
\* otherwise, 0 included when no slot was passed
CleartextResult(cb) ==
  IF cb.tls # 0 THEN cb.rv = -1
  ELSE IF cb.ppkt_num /\ cb.unread = 0 THEN cb.rv = -1
  ELSE cb.rv = cb.unread /\ cb.rv >= 0

\* C22: every send_server_cleartext call of the last drain returned what
\* its case requires, and when one reported failure the connection is
\* gone: the Handler is destroyed and the table has no entry for the peer.
C22_FirstFlightNeedsBytes ==
  ( ev.op = "read" /\ ev.res.called ) =>
    /\ \A i \in 1..Len(ev.res.cbs) : CleartextResult(ev.res.cbs[i])
    /\ ( \E i \in 1..Len(ev.res.cbs) : ev.res.cbs[i].rv < 0 ) =>
         /\ ev.res.rv # 0
         /\ heap[ev.h].st = "freed"
         /\ ~HasEntry(handlers_, ev.sa)

\* the engine asked for the first flight with a packet-number slot, the
\* handshake step did not fail and left no unread byte, and the connection
\* was dropped
C22_Witness ==
  /\ ev.op = "read"
  /\ ev.res.called
  /\ Len(ev.res.cbs) = 1
  /\ ev.res.cbs[1].ppkt_num
  /\ ev.res.cbs[1].tls = 0
  /\ ev.res.cbs[1].unread = 0
  /\ ev.res.cbs[1].rv = -1
  /\ heap[ev.h].st = "freed"
  /\ ~HasEntry(handlers_, ev.sa)

====
